---- MODULE Spec2Model ----
(***************************************************************************)
(* A model of sknn/mlp.py: the estimator facade (BaseMLP and its regressor *)
(* and classifier subclasses) that drives a PyLearn2 multi-layer           *)
(* perceptron through the fit / predict / predict_proba contract, with its *)
(* persistence through __getstate__ / __setstate__.                        *)
(*                                                                         *)
(* The estimator instance is the record `self` (its __dict__).  Optional   *)
(* Python values are encoded as None == <<>> and Some(v) == <<v>>.         *)
(* An array is abstracted to its shape and, where values matter, its rows. *)
(* fit() is one handler with a loop: Fit models everything up to the       *)
(* loop, TrainEpoch one iteration of the loop, and no other handler runs   *)
(* while pc = "training" (the estimator is single-threaded).               *)
(* Persistence is a dump followed by a load: GetState takes the dictionary *)
(* of the instance, SetState restores it into a fresh instance, which is   *)
(* the instance the later calls are made on.                               *)
(***************************************************************************)
EXTENDS Integers, Sequences, FiniteSets, TLC

VARIABLES
    self,       \* the estimator instance (its __dict__)
    pc,         \* "idle"; "training" while fit() is inside its loop; "pickled"
                \* between __getstate__ and the __setstate__ that restores it
    i,          \* the loop variable of fit()'s `for i in itertools.count(0)`
    ret,        \* what the last call returned or raised
    calls,      \* backend calls made by the call in progress (or the last one)
    pickled,    \* the dictionary __getstate__ returned, until it is restored
    original,   \* the instance __getstate__ was called on, until then
    budget,     \* how often the validation objective can still improve
    fitBuilds,  \* how often a fit() call has assembled the network
    fittedOn    \* the labels of the last fit() that reached its training loop

vars == <<self, pc, i, ret, calls, pickled, original, budget, fitBuilds, fittedOn>>

----------------------------------------------------------------------------
(* Bounds of the model. *)

\* the weights of a layer range over 0..MaxW
MaxW == 1
\* n_iter is None or one of 1..MaxIter
MaxIter == 1
\* the validation objective improves at most MaxImprove times after it was
\* first observed ("the monitored objective eventually stops improving")
MaxImprove == 1

----------------------------------------------------------------------------
(* Python values. *)

None == <<>>
Some(v) == <<v>>
Val(o) == o[1]

Max(a, b) == IF a >= b THEN a ELSE b
Min(a, b) == IF a <= b THEN a ELSE b

\* a raised exception: its Python type and what it is about
Raise(type, msg) == Some([type |-> type, msg |-> msg])

RECURSIVE SumSeq(_)
SumSeq(s) == IF s = <<>> THEN 0 ELSE Head(s) + SumSeq(Tail(s))

\* numpy.unique: the distinct values of a 1-D array, ascending
RECURSIVE Ascending(_)
Ascending(S) ==
    IF S = {} THEN <<>>
    ELSE LET m == CHOOSE x \in S : \A z \in S : x <= z
         IN  <<m>> \o Ascending(S \ {m})

unique(y) == Ascending({y[k] : k \in 1..Len(y)})

\* numpy.argmax of a row: the first position holding the largest value
argmax(row) ==
    CHOOSE j \in 1..Len(row) :
        /\ \A k \in 1..Len(row) : row[k] <= row[j]
        /\ \A k \in 1..(j - 1) : row[k] < row[j]

----------------------------------------------------------------------------
(* Layer: the layer descriptor, mlp.py lines 46-123. *)

LayerTypes ==
    {"Rectifier", "Sigmoid", "Tanh", "Maxout", "Convolution",
     "Linear", "Softmax", "Gaussian"}

\* lines 111-113: a type outside the known kinds is refused
type_refused(type) ==
    IF type \notin LayerTypes
    THEN Raise("NotImplementedError", <<"Layer type is not implemented", type>>)
    ELSE None

\* Layer.__init__ with keyword arguments, for a type that is not refused;
\* every argument but type is optional.  id stands for the identity of the
\* Python object: the same object may stand at several places of a list
Layer(type, name, units, pieces, channels, kernel_shape) ==
    [type |-> type, name |-> name, units |-> units, pieces |-> pieces,
     channels |-> channels, kernel_shape |-> kernel_shape,
     pool_shape |-> None, pool_type |-> None, dropout |-> None, id |-> 0]

\* the Layer object with identity id
Object(id, layer) == [layer EXCEPT !.id = id]

\* setattr(layers[k], attr, v): the object changes, at every place it stands
setattr(layers, k, attr, v) ==
    [j \in 1..Len(layers) |->
        IF layers[j].id = layers[k].id
        THEN [layers[j] EXCEPT ![attr] = v]
        ELSE layers[j]]

\* a hidden layer object that is used twice
TwiceUsed == Object(1, Layer("Rectifier", None, Some(2), None, None, None))

\* layer lists that the builders accept
Trainable ==
    { \* hidden layer with units (and pieces, which a Rectifier does not
      \* use), output width inferred from y
      << Object(1, Layer("Rectifier", None, Some(2), Some(2), None, None)),
         Object(2, Layer("Linear", None, None, None, None, None)) >>,
      \* a layer named by the caller, output width given
      << Object(1, Layer("Tanh", Some("mine"), Some(2), None, None, None)),
         Object(2, Layer("Softmax", None, Some(2), None, None, None)) >>,
      \* a single (output) layer
      << Object(1, Layer("Gaussian", None, None, None, None, None)) >> }

\* layer lists that make the first fit fail
Refused ==
    { \* hidden layer that lacks its units
      << Object(1, Layer("Sigmoid", None, None, None, None, None)),
         Object(2, Layer("Linear", None, None, None, None, None)) >>,
      \* Maxout layer that lacks its pieces
      << Object(1, Layer("Maxout", None, Some(2), None, None, None)),
         Object(2, Layer("Softmax", None, None, None, None, None)) >>,
      \* Convolution layer that lacks its kernel_shape
      << Object(1, Layer("Rectifier", None, Some(2), None, None, None)),
         Object(2, Layer("Convolution", None, None, None, Some(2), None)),
         Object(3, Layer("Linear", None, None, None, None, None)) >>,
      \* an output type in a hidden place, with and without units
      << Object(1, Layer("Linear", None, Some(2), None, None, None)),
         Object(2, Layer("Linear", None, None, None, None, None)) >>,
      << Object(1, Layer("Softmax", None, None, None, None, None)),
         Object(2, Layer("Linear", None, None, None, None, None)) >>,
      \* a hidden type in the last place
      << Object(1, Layer("Rectifier", None, Some(2), None, None, None)),
         Object(2, Layer("Tanh", None, None, None, None, None)) >>,
      \* one layer object at two places
      << TwiceUsed, TwiceUsed,
         Object(2, Layer("Linear", None, None, None, None, None)) >> }

\* the layer lists the estimator is constructed with
LayerLists == Trainable \cup Refused

----------------------------------------------------------------------------
(* Arrays and exceptions. *)

\* an array given by its shape only (its values do not matter to the facade)
Array(shape) == [shape |-> shape, rows |-> <<>>]

ndim(a) == Len(a.shape)

\* y.reshape((y.shape[0], 1)) of a 1-D array
reshape_column(y) == [y EXCEPT !.shape = <<y.shape[1], 1>>]

\* sklearn.cross_validation.train_test_split(X, y, test_size=valid_size):
\* ceil(test_size * n) samples go to the validation part, the rest to the
\* training part; valid_size is held in percent
n_test(n, valid_size) == (n * valid_size + 99) \div 100

take_rows(a, n) ==
    [a EXCEPT !.shape = <<n>> \o Tail(a.shape),
              !.rows = IF a.rows = <<>> THEN <<>> ELSE SubSeq(a.rows, 1, n)]

drop_rows(a, n) ==
    [a EXCEPT !.shape = <<a.shape[1] - n>> \o Tail(a.shape),
              !.rows = IF a.rows = <<>> THEN <<>>
                       ELSE SubSeq(a.rows, n + 1, Len(a.rows))]

train_test_split(X, y, valid_size) ==
    LET nt == n_test(X.shape[1], valid_size)
    IN  [X |-> drop_rows(X, nt), X_v |-> take_rows(X, nt),
         y |-> drop_rows(y, nt), y_v |-> take_rows(y, nt)]

----------------------------------------------------------------------------
(* BaseMLP.__init__, mlp.py lines 207-275. *)

\* "%s_%i_%s" % (label, i, layer.type), i the zero-based index
auto_name(k, n, type) ==
    (IF k - 1 < n - 1 THEN "Hidden" ELSE "Output")
        \o "_" \o ToString(k - 1) \o "_" \o type

\* lines 223-232 from place k on: a layer whose name is None is given one
\* (layer.name = ... assigns to the caller's object)
RECURSIVE name_loop(_, _)
name_loop(layers, k) ==
    IF k > Len(layers) THEN layers
    ELSE name_loop(
            IF layers[k].name = None
            THEN setattr(layers, k, "name",
                         Some(auto_name(k, Len(layers), layers[k].type)))
            ELSE layers,
            k + 1)

name_layers(layers) == name_loop(layers, 1)

\* LabelBinarizer(): not fitted yet
LabelBinarizer == [classes_ |-> None, y_type_ |-> None]

\* cls is "Regressor" or "Classifier"; _setup gives the classifier its
\* label_binarizer (the regressor has no such attribute: None here)
__init__(cls, layers, n_iter, n_stable, valid_set, valid_size) ==
    [cls |-> cls,
     layers |-> name_layers(layers),
     random_state |-> None,
     learning_rule |-> "sgd",
     learning_rate |-> "0.01",
     learning_momentum |-> "0.9",
     dropout |-> "0.0",
     batch_size |-> 1,
     n_iter |-> n_iter,
     n_stable |-> n_stable,
     f_stable |-> "0.001",
     valid_set |-> valid_set,
     valid_size |-> valid_size,
     verbose |-> FALSE,
     unit_counts |-> None,
     input_space |-> None,
     mlp |-> None,
     weights |-> None,
     vs |-> None,
     ds |-> None,
     trainer |-> None,
     f |-> None,
     train_set |-> None,
     best_valid_error |-> "inf",
     cost |-> None,
     _learning_rule |-> None,
     label_binarizer |-> IF cls = "Classifier" THEN Some(LabelBinarizer) ELSE None]

\* a variant that looks at weights where the property looks at f
is_initialized_weights(s) == ~(s.mlp = None \/ s.weights = None)

\* the property is_initialized
is_initialized(s) == ~(s.mlp = None \/ s.f = None)

\* the property is_convolution: "Conv" in self.layers[0].type
is_convolution(s) == s.layers[1].type = "Convolution"

----------------------------------------------------------------------------
(* The layer builder, mlp.py lines 320-411. *)

\* getattr(layer, r) is None; type is a string that Layer.__init__ has
\* checked, never None
attr_is_none(layer, r) == IF r = "type" THEN FALSE ELSE layer[r] = None

\* _check_layer: the exception of the first required attribute that is None,
\* in the order required + ['name', 'type']; None when all are present (the
\* warnings about unused attributes are logged and change nothing)
_check_layer(layer, required) ==
    LET req == required \o <<"name", "type">>
        missing == {k \in 1..Len(req) : attr_is_none(layer, req[k])}
    IN  IF missing = {} THEN None
        ELSE LET k == CHOOSE m \in missing : \A z \in missing : m <= z
             IN  Raise("ValueError", <<"requires parameter", layer.type, req[k]>>)

\* a PyLearn2 layer object before the network gives it its parameters
backend_layer(cls, name, dim, irange) ==
    [cls |-> cls, layer_name |-> name, dim |-> dim, irange |-> irange,
     W |-> None, b |-> None]

\* the result of a builder: the exception raised, or the layer built
built(exc, layer) == [exc |-> exc, layer |-> layer]

_create_hidden_layer(name, layer, irange) ==
    IF layer.type \in {"Rectifier", "Sigmoid", "Tanh"} THEN
        LET chk == _check_layer(layer, <<"units">>)
            cls == CASE layer.type = "Rectifier" -> "RectifiedLinear"
                     [] layer.type = "Sigmoid" -> "Sigmoid"
                     [] OTHER -> "Tanh"
        IN  IF chk # None THEN built(chk, None)
            ELSE built(None, Some(backend_layer(cls, name, layer.units, irange)))
    ELSE IF layer.type = "Maxout" THEN
        LET chk == _check_layer(layer, <<"units", "pieces">>)
        IN  IF chk # None THEN built(chk, None)
            ELSE built(None, Some(backend_layer("Maxout", name, layer.units, irange)))
    ELSE IF layer.type = "Convolution" THEN
        LET chk == _check_layer(layer, <<"channels", "kernel_shape">>)
        IN  IF chk # None THEN built(chk, None)
            ELSE built(None, Some(backend_layer("ConvRectifiedLinear", name,
                                                layer.channels, irange)))
    ELSE built(Raise("NotImplementedError",
                     <<"Hidden layer type is not supported", layer.type>>), None)

\* fan_in + fan_out of the initialization range; None + int is a TypeError
fan_sum(fan_in, fan_out) ==
    IF fan_in = None \/ fan_out = None THEN None
    ELSE Some(Val(fan_in) + Val(fan_out))

\* the initialization range sqrt(6) / sqrt(fan_in + fan_out), kept symbolic,
\* times the multiplier of the layer type
lim(fan, type) ==
    [fans |-> fan,
     times |-> CASE type = "Tanh" -> "1.1*lim"
                 [] type \in {"Rectifier", "Maxout", "Convolution"} -> "sqrt(2)"
                 [] type = "Sigmoid" -> "4"
                 [] OTHER -> "1"]

_create_output_layer(s, layer) ==
    LET uc == Val(s.unit_counts)
        fan == fan_sum(uc[Len(uc) - 1], uc[Len(uc)])
    IN  IF fan = None
        THEN built(Raise("TypeError", <<"unsupported operand type(s) for +">>), None)
        ELSE IF layer.type \in {"Linear", "Gaussian", "Softmax"} THEN
            LET chk == _check_layer(layer, <<"units">>)
                cls == CASE layer.type = "Linear" -> "Linear"
                         [] layer.type = "Gaussian" -> "LinearGaussian"
                         [] OTHER -> "Softmax"
            IN  IF chk # None THEN built(chk, None)
                ELSE built(None, Some(backend_layer(cls, layer.name, layer.units,
                                                    lim(Val(fan), "Output"))))
        ELSE built(Raise("NotImplementedError",
                         <<"Output layer type is not supported", layer.type>>), None)

\* one pass of the loop of _create_mlp over self.layers[:-1]
hidden_step(s, k) ==
    LET uc == Val(s.unit_counts)
        layer == s.layers[k]
        fan == fan_sum(uc[k], uc[k + 1])
    IN  IF fan = None
        THEN built(Raise("TypeError", <<"unsupported operand type(s) for +">>), None)
        ELSE _create_hidden_layer(layer.name, layer, lim(Val(fan), layer.type))

----------------------------------------------------------------------------
(* The model assembler, mlp.py lines 413-459 and 535-550. *)

\* the least element of a non-empty set of integers
least(S) == CHOOSE m \in S : \A z \in S : m <= z

\* a parameter tensor: its shape and its (abstracted) value
tensor(shape, v) == [shape |-> shape, v |-> v]

\* mlp.MLP(mlp_layers, nvis=...): every layer gets its parameters, the
\* weights drawn at random from its irange (the draw is rnd) and the biases 0
MLP(mlp_layers, nvis, rnd) ==
    [nvis |-> nvis,
     layers |->
        [k \in 1..Len(mlp_layers) |->
            LET fan_in == IF k = 1 THEN nvis ELSE Val(mlp_layers[k - 1].dim)
                dim == Val(mlp_layers[k].dim)
            IN  [mlp_layers[k] EXCEPT
                    !.W = Some(tensor(<<fan_in, dim>>, rnd)),
                    !.b = Some(tensor(<<dim>>, 0))]]]

\* _mlp_to_array: one (weights, biases) pair per layer, in layer order
_mlp_to_array(s) ==
    LET nn == Val(s.mlp)
    IN  [k \in 1..Len(nn.layers) |-> <<Val(nn.layers[k].W), Val(nn.layers[k].b)>>]

\* a variant that copies the weights and leaves the biases
_array_to_mlp_no_biases(array, nn) ==
    [exc |-> None,
     nn |-> [nn EXCEPT !.layers =
                [k \in 1..Len(nn.layers) |->
                    IF k <= Len(array)
                    THEN [nn.layers[k] EXCEPT !.W = Some(array[k][1])]
                    ELSE nn.layers[k]]]]

\* _array_to_mlp: copies the pairs into the layers by position, asserting
\* before each copy that the shapes agree; a failed assertion leaves the
\* earlier copies in place
_array_to_mlp(array, nn) ==
    LET n == Min(Len(nn.layers), Len(array))
        w_ok(k) == Val(nn.layers[k].W).shape = array[k][1].shape
        b_ok(k) == Val(nn.layers[k].b).shape = array[k][2].shape
        bad == {k \in 1..n : ~w_ok(k) \/ ~b_ok(k)}
        stop == IF bad = {} THEN n + 1 ELSE least(bad)
    IN  [exc |-> IF bad = {} THEN None
                 ELSE Raise("AssertionError", <<"shape">>),
         nn |-> [nn EXCEPT !.layers =
                    [k \in 1..Len(nn.layers) |->
                        IF k < stop /\ k <= n
                        THEN [nn.layers[k] EXCEPT !.W = Some(array[k][1]),
                                                  !.b = Some(array[k][2])]
                        ELSE IF k = stop /\ k <= n /\ w_ok(k)
                        THEN [nn.layers[k] EXCEPT !.W = Some(array[k][1])]
                        ELSE nn.layers[k]]]]

\* the outcome of a step of a handler: the instance after it, the exception
\* it raised (None: it completed) and the backend calls it made
outcome(s, exc, n) == [self |-> s, exc |-> exc, calls |-> n]

NoCalls == [dataset |-> 0, mlp |-> 0, function |-> 0, trainer |-> 0, train |-> 0]

\* lines 442-447: the stored weights, if any, go into the new network, then
\* the forward function is compiled
restore_and_compile(s, nn) ==
    IF s.weights # None THEN
        IF _array_to_mlp(Val(s.weights), nn).exc # None
        THEN outcome([s EXCEPT !.mlp = Some(_array_to_mlp(Val(s.weights), nn).nn)],
                     _array_to_mlp(Val(s.weights), nn).exc,
                     [NoCalls EXCEPT !.mlp = 1])
        ELSE outcome([s EXCEPT !.mlp = Some(_array_to_mlp(Val(s.weights), nn).nn),
                               !.weights = None,
                               !.f = Some("fprop")],
                     None, [NoCalls EXCEPT !.mlp = 1, !.function = 1])
    ELSE outcome([s EXCEPT !.mlp = Some(nn), !.f = Some("fprop")],
                 None, [NoCalls EXCEPT !.mlp = 1, !.function = 1])

\* mlp.MLP refuses two layers of one name
unique_names(layers) ==
    \A j, k \in 1..Len(layers) : layers[j].name = layers[k].name => j = k

\* lines 436-440: the network over the layers built
assemble(s, hidden, output, rnd) ==
    IF ~unique_names(s.layers)
    THEN outcome(s, Raise("ValueError", <<"two or more layers with same name">>),
                 NoCalls)
    ELSE
    restore_and_compile(s,
        MLP([k \in 1..Len(s.layers) |->
                IF k < Len(s.layers) THEN Val(hidden[k].layer) ELSE Val(output.layer)],
            Val(Val(s.unit_counts)[1]), rnd))

\* the layers are built in order; the first exception ends the call
first_failure(s, hidden, output, rnd) ==
    IF \E k \in DOMAIN hidden : hidden[k].exc # None
    THEN outcome(s, hidden[least({k \in DOMAIN hidden : hidden[k].exc # None})].exc,
                 NoCalls)
    ELSE IF output.exc # None THEN outcome(s, output.exc, NoCalls)
    ELSE assemble(s, hidden, output, rnd)

_create_mlp(s, rnd) ==
    first_failure(s,
                  [k \in 1..(Len(s.layers) - 1) |-> hidden_step(s, k)],
                  _create_output_layer(s, s.layers[Len(s.layers)]),
                  rnd)

\* _create_matrix_input: the dataset and, for a convolution network, the
\* input space made from the shape of X
_create_matrix_input(s, X, y) ==
    IF is_convolution(s)
    THEN [ds |-> [X |-> X, y |-> y],
          input_space |-> Some([shape |-> SubSeq(X.shape, 2, Min(3, Len(X.shape))),
                                num_channels |-> X.shape[Len(X.shape)]])]
    ELSE [ds |-> [X |-> X, y |-> y], input_space |-> None]

----------------------------------------------------------------------------
(* The trainer, mlp.py lines 282-318, and _initialize, lines 461-508. *)

\* MonitorBased(channel_name='objective', N=n_stable, prop_decrease=f_stable):
\* the countdown starts at N and the best value at infinity
MonitorBased(N) == [N |-> N, countdown |-> N, best_value |-> "inf"]

\* _create_trainer: the cost becomes a Dropout cost when dropout is asked for
\* globally or by a layer; the termination criterion exists only with a
\* validation dataset
_create_trainer(s, dataset) ==
    LET probs == {k \in 1..Len(s.layers) : s.layers[k].dropout # None}
        cost == IF s.cost = Some("Dropout") \/ probs # {}
                THEN Some([default |-> s.dropout, layers |-> probs])
                ELSE s.cost
    IN  [cost |-> cost,
         trainer |->
            [cost |-> cost,
             batch_size |-> s.batch_size,
             learning_rate |-> s.learning_rate,
             termination_criterion |->
                IF dataset # None THEN Some(MonitorBased(s.n_stable)) ELSE None,
             monitoring_dataset |-> dataset # None]]

sum_calls(a, b) ==
    [dataset |-> a.dataset + b.dataset, mlp |-> a.mlp + b.mlp,
     function |-> a.function + b.function, trainer |-> a.trainer + b.trainer,
     train |-> a.train + b.train]

\* self.unit_counts: the input width, then units (or channels) of each layer
unit_counts_of(X, layers) ==
    <<Some(X.shape[2])>> \o
        [k \in 1..Len(layers) |->
            IF layers[k].units # None THEN layers[k].units ELSE layers[k].channels]

\* lines 507-508: the trainer is made once the network exists
attach_trainer(net, made) ==
    IF net.exc # None
    THEN outcome(net.self, net.exc, sum_calls(made, net.calls))
    ELSE outcome([net.self EXCEPT
                    !.cost = _create_trainer(net.self, net.self.vs).cost,
                    !.trainer = Some(_create_trainer(net.self, net.self.vs).trainer)],
                 None,
                 [sum_calls(made, net.calls) EXCEPT !.trainer = 1])

\* lines 495-508: the datasets, the network, the trainer
build(s, X, y, rnd) ==
    attach_trainer(
        _create_mlp(
            [s EXCEPT
                !.train_set = Some(<<X, y>>),
                !.ds = Some(_create_matrix_input(s, X, y).ds),
                !.input_space = _create_matrix_input(s, X, y).input_space,
                !.vs = IF s.valid_set # None
                       THEN Some(_create_matrix_input(
                                s, Val(s.valid_set)[1], Val(s.valid_set)[2]).ds)
                       ELSE None],
            rnd),
        [NoCalls EXCEPT !.dataset = IF s.valid_set # None THEN 2 ELSE 1])

\* lines 488-494: a validation fraction splits the data
split_off(s, X, y, rnd) ==
    IF s.valid_size > 0 /\ s.valid_set # None
    THEN outcome(s, Raise("AssertionError", <<"valid_size and valid_set">>), NoCalls)
    ELSE IF s.valid_size > 0
    THEN build([s EXCEPT !.valid_set =
                    Some(<<train_test_split(X, y, s.valid_size).X_v,
                           train_test_split(X, y, s.valid_size).y_v>>)],
               train_test_split(X, y, s.valid_size).X,
               train_test_split(X, y, s.valid_size).y, rnd)
    ELSE build(s, X, y, rnd)

\* a variant that accepts any width
output_units_unchecked(layer, y) == TRUE

\* lines 470-474: the output layer's units are the width of y, or must be
output_units_ok(layer, y) == layer.units = None \/ Val(layer.units) = y.shape[2]

\* lines 476-482
with_unit_counts(s, X) == [s EXCEPT !.unit_counts = Some(unit_counts_of(X, s.layers))]

_initialize(s, X, y, rnd) ==
    IF is_initialized(s)
    THEN outcome(s, Raise("AssertionError", <<"already initialized">>), NoCalls)
    ELSE IF ~output_units_ok(s.layers[Len(s.layers)], y)
    THEN outcome(s, Raise("AssertionError", <<"units in output layer">>), NoCalls)
    ELSE split_off(
            with_unit_counts(
                [s EXCEPT !.layers = setattr(s.layers, Len(s.layers), "units",
                                             Some(y.shape[2]))],
                X),
            X, y, rnd)

----------------------------------------------------------------------------
(* _fit up to its training loop, mlp.py lines 552-588. *)

\* ds.view_converter.topo_view_to_design_mat(X): one flat row per sample
RECURSIVE product(_)
product(q) == IF q = <<>> THEN 1 ELSE Head(q) * product(Tail(q))

topo_view_to_design_mat(X) ==
    [X EXCEPT !.shape = <<X.shape[1], product(Tail(X.shape))>>]

\* line 564: whether this call has to initialize the network
must_initialize(s) == ~is_initialized(s)

\* lines 564-568: the first call initializes, a later call swaps the data in
initialize_or_swap(s, X, y, rnd) ==
    IF must_initialize(s)
    THEN _initialize(s, X, y, rnd)
    ELSE outcome([s EXCEPT !.train_set = Some(<<X, y>>)], None, NoCalls)

\* lines 553-554: the assertion on the sample counts
same_samples(X, n) == X.shape[1] = n

\* lines 570-572: the data of train_set goes into the dataset
load_dataset(init) ==
    IF init.exc # None THEN init
    ELSE IF init.self.ds = None
    THEN outcome(init.self, Raise("AttributeError", <<"NoneType", "X">>), init.calls)
    ELSE outcome([init.self EXCEPT !.ds =
                    Some([X |-> IF is_convolution(init.self)
                                THEN topo_view_to_design_mat(Val(init.self.train_set)[1])
                                ELSE Val(init.self.train_set)[1],
                          y |-> Val(init.self.train_set)[2]])],
                 None, init.calls)

_fit(s, X, y, rnd) ==
    IF ~same_samples(X, y.shape[1])
    THEN outcome(s, Raise("AssertionError", <<"same number of samples">>), NoCalls)
    ELSE load_dataset(
            initialize_or_swap(s, X, IF ndim(y) = 1 THEN reshape_column(y) ELSE y, rnd))

----------------------------------------------------------------------------
(* The classifier's label mapping, mlp.py lines 683-710. *)

\* _setup, line 692: L.type_of_target = lambda _: "multiclass"
type_of_target(y) == "multiclass"

\* label_binarizer.fit(y): the classes are the distinct labels, ascending,
\* and the target type is what type_of_target answers
label_binarizer_fit(y) ==
    [classes_ |-> Some(unique(y)), y_type_ |-> Some(type_of_target(y))]

\* label_binarizer.transform(y): one row per sample and one column per class;
\* for the target type "binary" only the last column is kept
label_binarizer_transform(lb, y) ==
    LET classes == Val(lb.classes_)
        onehot == [k \in 1..Len(y) |->
                    [j \in 1..Len(classes) |-> IF classes[j] = y[k] THEN 1 ELSE 0]]
    IN  IF type_of_target(y) = "binary"
        THEN [shape |-> <<Len(y), 1>>,
              rows |-> [k \in 1..Len(y) |-> <<onehot[k][Len(classes)]>>]]
        ELSE [shape |-> <<Len(y), Len(classes)>>, rows |-> onehot]

\* a variant without the classifier's own assertion on the sample counts
classifier_fit_unchecked(s, X, y, rnd) ==
    _fit([s EXCEPT !.label_binarizer = Some(label_binarizer_fit(y))],
         X, label_binarizer_transform(label_binarizer_fit(y), y), rnd)

\* MultiLayerPerceptronClassifier.fit
classifier_fit(s, X, y, rnd) ==
    IF ~same_samples(X, Len(y))
    THEN outcome(s, Raise("AssertionError", <<"same number of samples">>), NoCalls)
    ELSE
        _fit([s EXCEPT !.label_binarizer = Some(label_binarizer_fit(y))],
             X, label_binarizer_transform(label_binarizer_fit(y), y), rnd)

\* MultiLayerPerceptronClassifier.partial_fit; classes is None or Some(list)
partial_fit(s, X, y, classes, rnd) ==
    IF classes # None
    THEN classifier_fit(
            [s EXCEPT !.label_binarizer = Some(label_binarizer_fit(Val(classes)))],
            X, y, rnd)
    ELSE classifier_fit(s, X, y, rnd)

\* fit of the regressor and of the classifier
fit(s, X, y, rnd) ==
    IF s.cls = "Classifier" THEN classifier_fit(s, X, y, rnd) ELSE _fit(s, X, y, rnd)

----------------------------------------------------------------------------
(* Prediction, mlp.py lines 625-634 and 712-744.                           *)
(* A sample is abstracted to one number x.  A row of numbers is held as    *)
(* numerators over one denominator, [num |-> <<..>>, den |-> d], the j-th  *)
(* entry being num[j] / d; den = 0 marks the entries of a division by      *)
(* zero (nan where num[j] = 0, +inf or -inf otherwise).                    *)

sign(z) == IF z > 0 THEN 1 ELSE IF z < 0 THEN -1 ELSE 0
abs(z) == IF z < 0 THEN -z ELSE z

\* the activation of a hidden layer, on the abstracted pre-activation z
activation(cls, z) ==
    CASE cls \in {"RectifiedLinear", "Maxout", "ConvRectifiedLinear"} -> Max(0, z)
      [] cls = "Sigmoid" -> IF z > 0 THEN 1 ELSE 0
      [] OTHER -> sign(z)

\* the state after the first k layers, all of them hidden
RECURSIVE hidden_state(_, _, _)
hidden_state(nn, k, x) ==
    IF k = 0 THEN x
    ELSE activation(nn.layers[k].cls,
                    Val(nn.layers[k].W).v * hidden_state(nn, k - 1, x)
                        + Val(nn.layers[k].b).v)

\* self.mlp.fprop on one sample: the output layer's pre-activations, which a
\* Linear or Gaussian layer returns as they are and a Softmax layer turns
\* into positive numbers that sum to 1
fprop(nn, x) ==
    LET n == Len(nn.layers)
        out == nn.layers[n]
        h == hidden_state(nn, n - 1, x)
        z == [j \in 1..Val(out.dim) |->
                (IF j % 2 = 1 THEN 1 ELSE -1) * Val(out.W).v * h + Val(out.b).v]
        low == least({z[j] : j \in 1..Len(z)})
        e == [j \in 1..Len(z) |-> z[j] - low + 1]
    IN  IF out.cls = "Softmax"
        THEN [num |-> e, den |-> SumSeq(e)]
        ELSE [num |-> z, den |-> 1]

\* the compiled function self.f on the samples X
f(s, X) == [k \in 1..Len(X) |-> fprop(Val(s.mlp), X[k])]

\* the result of a call that returns a value: the exception or the value
result(exc, value) == [exc |-> exc, value |-> value]

\* a variant that takes unit_counts for the sign of a trained network
_predict_unit_counts(s, X) ==
    IF s.unit_counts = None
    THEN result(Raise("ValueError", <<"not trained">>), <<>>)
    ELSE IF s.f = None
    THEN result(Raise("TypeError", <<"NoneType", "not callable">>), <<>>)
    ELSE result(None, f(s, X))

_predict(s, X) ==
    IF ~is_initialized(s)
    THEN result(Raise("ValueError", <<"not trained">>), <<>>)
    ELSE result(None, f(s, X))

\* row / total, total = tn / td
divide(row, tn, td) ==
    [num |-> [j \in 1..Len(row.num) |-> row.num[j] * td * sign(tn)],
     den |-> row.den * abs(tn)]

\* proba / proba.sum(1, keepdims=True): every row by its own sum
normalize_rows(proba) ==
    [k \in 1..Len(proba) |-> divide(proba[k], SumSeq(proba[k].num), proba[k].den)]

predict_proba(s, X) ==
    LET proba == _predict(s, X)
    IN  IF proba.exc # None THEN proba
        ELSE result(None, normalize_rows(proba.value))

\* y.argmax(axis=1) on one row; a nan entry is the maximum, the first one wins
argmax_row(row) ==
    IF row.den = 0 /\ \E j \in 1..Len(row.num) : row.num[j] = 0
    THEN least({j \in 1..Len(row.num) : row.num[j] = 0})
    ELSE argmax(row.num)

\* label_binarizer.inverse_transform(y, threshold=0.5): for the target type
\* "multiclass", classes.take(y.argmax(axis=1), mode="clip"); else the class
\* is the second one where the last column exceeds the threshold
inverse_transform(lb, y) ==
    LET classes == Val(lb.classes_)
    IN  IF lb.y_type_ = Some("multiclass")
        THEN [k \in 1..Len(y) |-> classes[Min(argmax_row(y[k]), Len(classes))]]
        ELSE [k \in 1..Len(y) |->
                LET last == y[k].num[Len(y[k].num)]
                IN  IF y[k].den > 0 /\ 2 * last > y[k].den
                    THEN classes[Len(classes)] ELSE classes[1]]

\* MultiLayerPerceptronClassifier.predict
classifier_predict(s, X) ==
    LET y == predict_proba(s, X)
    IN  IF y.exc # None THEN y
        ELSE result(None, inverse_transform(Val(s.label_binarizer), y.value))

\* predict of the regressor and of the classifier
predict(s, X) ==
    IF s.cls = "Classifier" THEN classifier_predict(s, X) ELSE _predict(s, X)

----------------------------------------------------------------------------
(* Persistence, mlp.py lines 523-542. *)

\* the dictionary of __getstate__: every attribute, weights set to the array
\* of the live network, and the live handles deleted (None stands for "not
\* in the dictionary")
__getstate__(s) ==
    IF s.mlp = None
    THEN result(Raise("AssertionError", <<"not been initialized">>), <<>>)
    ELSE result(None,
                <<[s EXCEPT !.weights = Some(_mlp_to_array(s)),
                            !.ds = None, !.vs = None, !.f = None,
                            !.trainer = None, !.mlp = None]>>)

\* __setstate__ on a fresh instance: the attributes of d, the live handles
\* None, then the network is built again and given the stored weights
__setstate__(d, rnd) ==
    _create_mlp([d EXCEPT !.ds = None, !.vs = None, !.f = None,
                          !.trainer = None, !.mlp = None], rnd)

----------------------------------------------------------------------------
(* The training loop of _fit, mlp.py lines 590-604. *)

Weights == 0..MaxW

\* the values an optimizer pass can leave the biases at
Biases == {0, 1}

\* where the loop variable and the count of optimizer passes stop counting
\* (a loop without n_iter never reads them)
IterCap == MaxIter + 2

\* the dataset handed to trainer.train fits the input and the target widths
\* of the network (PyLearn2 raises otherwise)
backend_accepts(s) ==
    LET nn == Val(s.mlp)
        data == Val(s.ds)
    IN  /\ data.X.shape[2] = nn.nvis
        /\ data.y.shape[2] = Val(nn.layers[Len(nn.layers)].dim)

\* trainer.train(dataset=self.ds): one optimizer pass leaves the parameters
\* at new values, abstracted by the weight v and the bias u
train(s, v, u) ==
    LET nn == Val(s.mlp)
    IN  [s EXCEPT !.mlp = Some([nn EXCEPT !.layers =
            [k \in 1..Len(nn.layers) |->
                [nn.layers[k] EXCEPT
                    !.W = Some(tensor(Val(nn.layers[k].W).shape, v)),
                    !.b = Some(tensor(Val(nn.layers[k].b).shape,
                                      IF k % 2 = 1 THEN u ELSE 1 - u))]]])]

\* trainer.continue_learning(self.mlp): without a termination criterion,
\* True.  With MonitorBased: the countdown restarts at N when the objective
\* fell below (1 - prop_decrease) * best_value (always so on the first
\* observation, best_value being infinite) and else goes down by one;
\* learning continues while it is positive.  The countdown is read only
\* through `> 0`, so the model holds it at 0 once it is there.
continue_learning(tr, improved) ==
    IF tr.termination_criterion = None
    THEN [trainer |-> tr, continue |-> TRUE]
    ELSE LET c == Val(tr.termination_criterion)
             down == IF improved \/ c.best_value = "inf"
                     THEN c.N ELSE Max(c.countdown - 1, 0)
         IN  [trainer |-> [tr EXCEPT !.termination_criterion =
                             Some([c EXCEPT !.countdown = down,
                                            !.best_value = "seen"])],
              continue |-> down > 0]

\* line 601: the cap on the iterations
cap_reached(n_iter, k) == n_iter # None /\ k >= Val(n_iter)

\* the objective may fall below the threshold only after a first observation
\* and while the budget of improvements lasts
may_improve(s) ==
    /\ Val(s.trainer).termination_criterion # None
    /\ Val(Val(s.trainer).termination_criterion).best_value # "inf"
    /\ budget > 0

raised(op, exc) ==
    [op |-> op, exc |-> exc, value |-> <<>>, labels |-> <<>>, rows |-> <<>>]
returned(op, value) ==
    [op |-> op, exc |-> None, value |-> value, labels |-> <<>>, rows |-> <<>>]

TrainEpoch ==
    /\ pc = "training"
    /\ calls' = [calls EXCEPT !.train = Min(calls.train + 1, IterCap)]
    /\ UNCHANGED <<pickled, original, fitBuilds, fittedOn>>
    /\ IF ~backend_accepts(self)
       THEN /\ self' = self
            /\ pc' = "idle"
            /\ i' = 0
            /\ ret' = raised(ret.op, Raise("ValueError", <<"backend", "shape">>))
            /\ UNCHANGED budget
       ELSE \E v \in Weights, u \in Biases, improved \in BOOLEAN :
            /\ improved => may_improve(self)
            /\ LET s1 == train(self, v, u)
                   cl == continue_learning(Val(s1.trainer), improved)
                   stop == ~cl.continue \/ cap_reached(self.n_iter, i)
               IN  /\ self' = [s1 EXCEPT !.trainer = Some(cl.trainer)]
                   /\ pc' = IF stop THEN "idle" ELSE "training"
                   /\ i' = IF stop THEN 0 ELSE Min(i + 1, IterCap)
                   /\ ret' = IF stop THEN returned(ret.op, <<"self">>) ELSE ret
            /\ budget' = IF improved THEN budget - 1 ELSE budget

----------------------------------------------------------------------------
(* The calls a user makes, and their arguments. *)

\* fit(X, y) of the regressor: X and y by shape (y may be 1-D)
RegressorData ==
    { <<Array(<<2, 2>>), Array(<<2>>)>>,
      <<Array(<<3, 2>>), Array(<<3, 2>>)>>,
      <<Array(<<2, 2>>), Array(<<3, 1>>)>> }

\* fit(X, y) of the classifier: X by shape, y the labels of the samples
ClassifierData ==
    { <<Array(<<2, 2>>), <<2, 1>>>>,
      <<Array(<<2, 2>>), <<3, 1>>>>,
      <<Array(<<3, 2>>), <<1, 3, 2>>>>,
      <<Array(<<2, 2>>), <<3, 3, 1>>>> }

FitData(s) == IF s.cls = "Classifier" THEN ClassifierData ELSE RegressorData

\* partial_fit(X, y, classes): classes is None or a list of labels
PartialFitData ==
    { <<Array(<<2, 2>>), <<2, 1>>, None>>,
      <<Array(<<2, 2>>), <<2, 1>>, Some(<<1, 2, 3>>)>>,
      <<Array(<<2, 2>>), <<1, 3>>, Some(<<3, 1>>)>>,
      <<Array(<<3, 2>>), <<2, 1>>, Some(<<2, 3>>)>> }

\* the outcomes of the random initialization that a call can meet: only a
\* call that builds the network draws
Draws(s) == IF s.mlp = None THEN Weights ELSE {0}

\* Layer(type): a type string of the known kinds and one outside them
TypeInputs == {"Linear", "Dense"}

\* predict(X): the samples
PredictData == {<<0, 1>>}

StableWindows == {2}

ValidSets == {None, Some(<<Array(<<1, 2>>), Array(<<1, 1>>)>>)}

\* valid_size in percent
ValidSizes == {0, 50}

IterCaps == {None} \cup {Some(k) : k \in 1..MaxIter}

\* the hyperparameters an estimator is constructed with: every setting for
\* the lists that can be trained, the defaults for the others
Hyperparameters(layers) ==
    IF layers \in Trainable
    THEN IterCaps \X StableWindows \X ValidSets \X ValidSizes
    ELSE {<<None, n_stable, None, 0>> : n_stable \in StableWindows}

\* how a call that runs the loop of _fit starts; labels are those of its y
Start(op, r, labels) ==
    /\ self' = r.self
    /\ calls' = r.calls
    /\ fitBuilds' = fitBuilds + r.calls.mlp
    /\ i' = 0
    /\ pc' = IF r.exc = None THEN "training" ELSE "idle"
    /\ ret' = IF r.exc = None THEN returned(op, <<"running">>) ELSE raised(op, r.exc)
    /\ fittedOn' = IF r.exc = None THEN labels ELSE fittedOn
    /\ UNCHANGED <<pickled, original, budget>>

\* the distinct labels of the y of a classifier (a regressor has none)
labels_of(s, y) ==
    IF s.cls = "Classifier" THEN {y[k] : k \in 1..Len(y)} ELSE {}

Fit(X, y) ==
    /\ pc = "idle"
    /\ \E rnd \in Draws(self) : Start("fit", fit(self, X, y, rnd), labels_of(self, y))

PartialFit(X, y, classes) ==
    /\ pc = "idle"
    /\ self.cls = "Classifier"
    /\ \E rnd \in Draws(self) :
        Start("partial_fit", partial_fit(self, X, y, classes, rnd), labels_of(self, y))

\* a call that returns at once and leaves the instance as it is
Answer(op, r) ==
    /\ ret' = [op |-> op, exc |-> r.exc, value |-> <<>>,
               labels |-> IF op = "predict" /\ self.cls = "Classifier"
                          THEN r.value ELSE <<>>,
               rows |-> IF op = "predict" /\ self.cls = "Classifier"
                        THEN <<>> ELSE r.value]
    /\ calls' = NoCalls
    /\ UNCHANGED <<self, pc, i, pickled, original, budget, fitBuilds, fittedOn>>

\* Layer(type): the constructor of a layer descriptor returns or raises
NewLayer(type) ==
    /\ pc = "idle"
    /\ Answer("Layer", result(type_refused(type), <<>>))

Predict(X) ==
    /\ pc = "idle"
    /\ Answer("predict", predict(self, X))

PredictProba(X) ==
    /\ pc = "idle"
    /\ self.cls = "Classifier"
    /\ Answer("predict_proba", predict_proba(self, X))

\* pickling: __getstate__ hands out the dictionary
GetState ==
    /\ pc = "idle"
    /\ LET r == __getstate__(self)
       IN  /\ ret' = raised("__getstate__", r.exc)
           /\ pickled' = IF r.exc = None THEN Some(r.value[1]) ELSE None
           /\ original' = IF r.exc = None THEN Some(self) ELSE None
           /\ pc' = IF r.exc = None THEN "pickled" ELSE "idle"
    /\ calls' = NoCalls
    /\ UNCHANGED <<self, i, budget, fitBuilds, fittedOn>>

\* unpickling: the instance is from now on the one __setstate__ has restored
SetState ==
    /\ pc = "pickled"
    /\ \E rnd \in Weights :
        LET r == __setstate__(Val(pickled), rnd)
        IN  /\ self' = r.self
            /\ calls' = r.calls
            /\ ret' = raised("__setstate__", r.exc)
    /\ pc' = "idle"
    /\ pickled' = None
    /\ original' = None
    /\ UNCHANGED <<i, budget, fitBuilds, fittedOn>>

Init ==
    /\ \E cls \in {"Regressor", "Classifier"}, layers \in LayerLists :
        \E h \in Hyperparameters(layers) :
            self = __init__(cls, layers, h[1], h[2], h[3], h[4])
    /\ pc = "idle"
    /\ i = 0
    /\ ret = returned("__init__", <<>>)
    /\ calls = NoCalls
    /\ pickled = None
    /\ original = None
    /\ budget = MaxImprove
    /\ fitBuilds = 0
    /\ fittedOn = {}

Next ==
    \/ \E d \in FitData(self) : Fit(d[1], d[2])
    \/ \E d \in PartialFitData : PartialFit(d[1], d[2], d[3])
    \/ TrainEpoch
    \/ \E X \in PredictData : Predict(X)
    \/ \E X \in PredictData : PredictProba(X)
    \/ GetState
    \/ SetState
    \/ \E type \in TypeInputs : NewLayer(type)

Spec == Init /\ [][Next]_vars

\* fit() is a synchronous loop: once inside it, the next iteration runs
FairSpec == Spec /\ WF_vars(TrainEpoch)

----------------------------------------------------------------------------
(* The properties checked. *)

\* the steps that are calls: a call starts from "idle" and leaves its name
\* in ret; the steps of the training loop start from "training"
Called(op) == pc = "idle" /\ ret'.op = op
FitOf(d) == Called("fit") /\ Fit(d[1], d[2])
PartialFitOf(d) == Called("partial_fit") /\ PartialFit(d[1], d[2], d[3])

\* t is s but for the training data and the label mapping
SameButData(s, t) ==
    [t EXCEPT !.train_set = s.train_set, !.ds = s.ds,
              !.label_binarizer = s.label_binarizer] = s

\* the network without the values of its parameters
Topology(s) ==
    [k \in 1..Len(Val(s.mlp).layers) |->
        [cls |-> Val(s.mlp).layers[k].cls,
         layer_name |-> Val(s.mlp).layers[k].layer_name,
         dim |-> Val(s.mlp).layers[k].dim,
         W |-> Val(Val(s.mlp).layers[k].W).shape,
         b |-> Val(Val(s.mlp).layers[k].b).shape]]

\* C1: over any sequence of fit() calls the network is built once, by the
\* fit() that first gets through; a fit() on an initialized estimator only
\* replaces the data (it calls neither the network builder nor the function
\* compiler, and leaves unit_counts, mlp and f alone), and the training loop
\* changes parameter values only.
C1_BuiltOnce ==
    [][/\ fitBuilds' <= 1
       /\ is_initialized(self') => fitBuilds' = 1
       /\ (is_initialized(self) /\ (Called("fit") \/ Called("partial_fit")))
                => /\ SameButData(self, self')
                   /\ calls'.mlp = 0
                   /\ calls'.function = 0
                   /\ fitBuilds' = fitBuilds
       /\ (fitBuilds' # fitBuilds)
                => /\ Called("fit") \/ Called("partial_fit")
                   /\ ~is_initialized(self)
                   /\ is_initialized(self')
                   /\ ret'.exc = None
       /\ pc = "training"
                => /\ self'.unit_counts = self.unit_counts
                   /\ self'.f = self.f
                   /\ Topology(self') = Topology(self)
                   /\ calls'.mlp = calls.mlp
                   /\ calls'.function = calls.function]_vars

\* a second fit() has returned: it built nothing, the first one had
C1_Witness ==
    /\ pc = "idle"
    /\ ret = returned("fit", <<"self">>)
    /\ calls.mlp = 0
    /\ calls.train > 0
    /\ fitBuilds = 1

\* C2: predict() and predict_proba() on an estimator that is not initialized
\* raise the "not trained" ValueError and leave the estimator as it is, also
\* after fit() calls that failed before the network was assembled.
C2_PredictBeforeFit ==
    [][(~is_initialized(self) /\ (Called("predict") \/ Called("predict_proba")))
            => /\ ret'.exc = Raise("ValueError", <<"not trained">>)
               /\ self' = self]_vars

\* predict() has raised after a fit() that failed past the unit counts
C2_Witness ==
    /\ ret = raised("predict", Raise("ValueError", <<"not trained">>))
    /\ self.unit_counts # None
    /\ self.mlp = None

\* C3: __getstate__ of an initialized estimator gives the attributes and one
\* (weights, biases) pair per layer in layer order, without the handles ds,
\* vs, f, trainer, mlp; __setstate__ of it gives an initialized estimator
\* with the same weights and biases layer by layer and the same predict(X).
C3_SnapshotRoundTrip ==
    [][/\ (is_initialized(self) /\ Called("__getstate__"))
            => /\ pickled' # None
               /\ \A h \in {"ds", "vs", "f", "trainer", "mlp"} :
                    Val(pickled')[h] = None
               /\ Len(Val(Val(pickled').weights)) = Len(self.layers)
               /\ \A k \in 1..Len(self.layers) :
                    Val(Val(pickled').weights)[k] =
                        <<Val(Val(self.mlp).layers[k].W), Val(Val(self.mlp).layers[k].b)>>
               /\ [Val(pickled') EXCEPT !.weights = self.weights, !.ds = self.ds,
                        !.vs = self.vs, !.f = self.f, !.trainer = self.trainer,
                        !.mlp = self.mlp] = self
       /\ pc = "pickled"
            => /\ ret'.exc = None
               /\ is_initialized(self')
               /\ Len(Val(self'.mlp).layers) = Len(Val(Val(original).mlp).layers)
               /\ \A k \in 1..Len(Val(self'.mlp).layers) :
                    /\ Val(self'.mlp).layers[k].W = Val(Val(original).mlp).layers[k].W
                    /\ Val(self'.mlp).layers[k].b = Val(Val(original).mlp).layers[k].b
               /\ \A X \in PredictData : predict(self', X) = predict(Val(original), X)]_vars

\* a trained estimator has been restored: some bias is not the initial 0
C3_Witness ==
    /\ ret = raised("__setstate__", None)
    /\ is_initialized(self)
    /\ \E k \in 1..Len(Val(self.mlp).layers) : Val(Val(self.mlp).layers[k].b).v # 0

\* the sample count of a y
Samples(s, y) == IF s.cls = "Classifier" THEN Len(y) ELSE y.shape[1]

\* C4: fit(X, y) with different sample counts in X and y raises the
\* sample-count assertion before any backend call and changes nothing, for
\* the regressor and the classifier, at the first fit and at a later one.
C4_SampleMismatch ==
    [][\A d \in FitData(self) :
        (d[1].shape[1] # Samples(self, d[2]) /\ FitOf(d))
            => /\ self' = self
               /\ calls' = NoCalls
               /\ pc' = "idle"
               /\ fitBuilds' = fitBuilds
               /\ ret' = raised("fit",
                            Raise("AssertionError", <<"same number of samples">>))]_vars

\* a fit() of an initialized classifier has raised the assertion
C4_Witness ==
    /\ ret = raised("fit", Raise("AssertionError", <<"same number of samples">>))
    /\ self.cls = "Classifier"
    /\ is_initialized(self)

\* C5: with n_iter = N a fit() makes at most N optimizer passes.
C5_AtMostNIterPasses ==
    self.n_iter # None => calls.train <= Val(self.n_iter)

\* C6: every fit() that reaches its training loop returns.
C6_FitReturns == (pc = "training") ~> (pc = "idle")

\* the width of the target that _fit hands to _initialize
TargetWidth(s, y) ==
    IF s.cls = "Classifier" THEN Cardinality({y[k] : k \in 1..Len(y)})
    ELSE IF ndim(y) = 1 THEN 1 ELSE y.shape[2]

\* what C7 says of one first fit(X, y) whose sample counts agree
FirstFitWidth(y) ==
    LET n == Len(self.layers)
        w == TargetWidth(self, y)
        given == self.layers[n].units
    IN  /\ (given # None /\ Val(given) # w)
            => /\ ret'.exc = Raise("AssertionError", <<"units in output layer">>)
               /\ calls' = NoCalls
               /\ self'.mlp = None
               /\ ~is_initialized(self')
        /\ given = None => self'.layers[n].units = Some(w)
        /\ pc' = "training"
            => /\ is_initialized(self')
               /\ Val(self'.unit_counts)[n + 1] = Some(w)

\* C7: at the first fit an unspecified unit count of the last layer becomes
\* the width of the target; a specified one that differs from it makes fit()
\* fail before a network is built, the estimator staying uninitialized;
\* after a successful first fit the last unit count is the target width.
C7_OutputWidth ==
    [][/\ \A d \in FitData(self) :
            (~is_initialized(self) /\ d[1].shape[1] = Samples(self, d[2])
                /\ Called("fit"))
                => (FirstFitWidth(d[2]) \/ ~Fit(d[1], d[2]))
       /\ \A d \in PartialFitData :
            (~is_initialized(self) /\ d[1].shape[1] = Len(d[2])
                /\ Called("partial_fit"))
                => (FirstFitWidth(d[2]) \/ ~PartialFit(d[1], d[2], d[3]))]_vars

\* a first fit has failed on the width of its target
C7_Witness ==
    /\ ret = raised("fit", Raise("AssertionError", <<"units in output layer">>))
    /\ self.mlp = None
    /\ self.unit_counts = None

\* C8: the label mapping, once fitted, is not changed by a later fit() or
\* partial_fit(), and after partial_fit(X, y, classes=C) it covers C.
C8_MappingFittedOnce ==
    [][/\ (self.cls = "Classifier" /\ Val(self.label_binarizer).classes_ # None)
            => self'.label_binarizer = self.label_binarizer
       /\ \A d \in PartialFitData :
            (PartialFitOf(d) /\ d[3] # None /\ pc' = "training")
                => Val(self'.label_binarizer).classes_ = Some(unique(Val(d[3])))]_vars

\* C9: every row of predict_proba(X) sums to 1.
C9_RowsSumToOne ==
    (ret.op = "predict_proba" /\ ret.exc = None)
        => \A k \in 1..Len(ret.rows) :
            /\ ret.rows[k].den # 0
            /\ SumSeq(ret.rows[k].num) = ret.rows[k].den

\* C10: predict(X) of a classifier returns, for every sample, one of the
\* labels it was fitted on.
C10_PredictsFittedLabel ==
    (self.cls = "Classifier" /\ ret.op = "predict" /\ ret.exc = None)
        => \A k \in 1..Len(ret.labels) : ret.labels[k] \in fittedOn

\* the configuration: the hyperparameters the constructor was given
ConfigFields ==
    {"learning_rule", "learning_rate", "learning_momentum", "dropout",
     "batch_size", "n_iter", "n_stable", "f_stable", "valid_set", "valid_size",
     "verbose"}

\* C11: no fit(), partial_fit(), predict() or predict_proba() call, and no
\* iteration of the training loop of a fit, changes a configuration field.
C11_ConfigImmutable ==
    [][(\/ Called("fit") \/ Called("partial_fit")
        \/ Called("predict") \/ Called("predict_proba")
        \/ pc = "training")
            => \A c \in ConfigFields : self'[c] = self[c]]_vars

\* what C12 says of the layers of an estimator constructed from the list arg
Named(arg, layers) ==
    /\ Len(layers) = Len(arg)
    /\ \A k \in 1..Len(arg) :
        /\ [layers[k] EXCEPT !.name = arg[k].name] = arg[k]
        /\ layers[k].name =
            IF arg[k].name # None THEN arg[k].name
            ELSE Some((IF k < Len(arg) THEN "Hidden" ELSE "Output")
                        \o "_" \o ToString(k - 1) \o "_" \o arg[k].type)

\* C12: when the constructor returns, the layers are those of the list
\* passed in, in its order; a layer passed without a name is named
\* "Hidden_<i>_<type>", or "Output_<i>_<type>" when it is the last, i its
\* zero-based place; a layer passed with a name keeps it.
C12_LayerNames ==
    ret.op = "__init__"
        => \A arg \in LayerLists :
            self.layers = name_layers(arg) => Named(arg, self.layers)

\* the types the two builders know
HiddenTypes == {"Rectifier", "Sigmoid", "Tanh", "Maxout", "Convolution"}
OutputTypes == {"Linear", "Softmax", "Gaussian"}

\* a layer stands at a place whose builder does not know its type
Unsupported(layers) ==
    \/ \E k \in 1..(Len(layers) - 1) : layers[k].type \notin HiddenTypes
    \/ layers[Len(layers)].type \notin OutputTypes

\* a first fit(X, y) whose data pass the checks that precede the builders:
\* the sample counts, the width of the output layer, the validation source
ReachesBuilders(X, y) ==
    /\ ~is_initialized(self)
    /\ X.shape[1] = Samples(self, y)
    /\ \/ self.layers[Len(self.layers)].units = None
       \/ Val(self.layers[Len(self.layers)].units) = TargetWidth(self, y)
    /\ ~(self.valid_size > 0 /\ self.valid_set # None)

\* the call has raised an exception of this Python type
Raised(r, type) == r.exc # None /\ Val(r.exc).type = type

\* C13: Layer(type) with a type outside the eight kinds raises
\* NotImplementedError, so no layer of the estimator has such a type; a
\* first fit() of an estimator with a layer at a place whose builder does
\* not know its type fails with NotImplementedError and leaves the
\* estimator uninitialized.
C13_UnsupportedTypes ==
    [][/\ \A t \in TypeInputs :
            (Called("Layer") /\ NewLayer(t))
                => (t \notin LayerTypes <=> Raised(ret', "NotImplementedError"))
       /\ \A k \in 1..Len(self'.layers) : self'.layers[k].type \in LayerTypes
       /\ \A d \in FitData(self) :
            (Unsupported(self.layers) /\ ReachesBuilders(d[1], d[2]) /\ FitOf(d))
                => /\ Raised(ret', "NotImplementedError")
                   /\ ~is_initialized(self')]_vars

\* the fields a hidden layer of a type must have
Required(type) ==
    CASE type \in {"Rectifier", "Sigmoid", "Tanh"} -> {"units"}
      [] type = "Maxout" -> {"units", "pieces"}
      [] type = "Convolution" -> {"channels", "kernel_shape"}
      [] OTHER -> {}

\* the fields that mean nothing to a hidden layer of a type
Irrelevant(type) ==
    {"units", "pieces", "channels", "kernel_shape"} \ Required(type)

\* the hidden layers that lack a required field
Lacking(layers) ==
    {k \in 1..(Len(layers) - 1) : \E r \in Required(layers[k].type) : layers[k][r] = None}

\* C14: a first fit() of an estimator with a hidden layer that lacks a field
\* its type requires fails with the ValueError that names the type and a
\* missing field of such a layer, and with no other error; a field that is
\* set but means nothing to the type does not make fit() fail.
C14_RequiredFields ==
    [][\A d \in FitData(self) :
        (~Unsupported(self.layers) /\ ReachesBuilders(d[1], d[2]) /\ FitOf(d))
            => /\ Lacking(self.layers) # {}
                    => \E k \in Lacking(self.layers) :
                        \E r \in Required(self.layers[k].type) :
                            /\ self.layers[k][r] = None
                            /\ ret'.exc = Raise("ValueError",
                                    <<"requires parameter", self.layers[k].type, r>>)
               /\ (/\ Lacking(self.layers) = {}
                   /\ unique_names(self.layers)
                   /\ \E k \in 1..(Len(self.layers) - 1) :
                        \E a \in Irrelevant(self.layers[k].type) :
                            self.layers[k][a] # None)
                    => ret'.exc = None /\ pc' = "training"]_vars

\* C15: a fit(X, y) with matching sample counts on an estimator that
\* __setstate__ has just restored gets to its training loop without an
\* error and without building the network again.
C15_FitAfterRestore ==
    [][\A d \in FitData(self) :
        (/\ ret = raised("__setstate__", None)
         /\ is_initialized(self)
         /\ d[1].shape[1] = Samples(self, d[2])
         /\ FitOf(d))
            => /\ ret'.exc = None
               /\ pc' = "training"
               /\ calls'.mlp = 0
               /\ Topology(self') = Topology(self)]_vars

====
